---- MODULE Spec2Model ----
(***************************************************************************)
(* A model of the neotraits attribute descriptors of                      *)
(* tvb/basic/neotraits/_attr.py (Int, Float, List, NArray, Const, Range,   *)
(* LinspaceRange) and of the index arithmetic of the analyzers.            *)
(*                                                                         *)
(* Python values are records with a field t naming their type.  Numbers    *)
(* carry their exact value as a sign and the set of the positions of the   *)
(* one-bits of their magnitude (3 is {0,1}; 2^53+1 is {0,53}; 1.5 is       *)
(* {0,-1}), so that 64-bit integers and float mantissas keep their width.  *)
(***************************************************************************)
EXTENDS Integers, Sequences, FiniteSets, TLC

\* ------------------------------------------------------------------------
\* Bounds of the model

\* Number of instances of the owning class.
NumInst == 2

Insts == 1..NumInst

\* ------------------------------------------------------------------------
\* Python values

None == [t |-> "NoneType"]

Num(t, neg, bits) == [t |-> t, neg |-> neg, bits |-> bits]

\* a python str: a value that is no number
Str == [t |-> "str"]

Tuple(items) == [t |-> "tuple", items |-> items]

IsNum(v) == "bits" \in DOMAIN v

SetMax(S) == CHOOSE x \in S : \A y \in S : y <= x

\* |a| < |b| for magnitudes given by their one-bits
MagLess(a, b) ==
    /\ a # b
    /\ SetMax((a \ b) \cup (b \ a)) \in b

\* magnitude < 2^n
MagBelowPow(a, n) == \A b \in a : b < n

\* python ==  between two values (numbers compare by value across types)
PyEq(a, b) ==
    IF IsNum(a) /\ IsNum(b) THEN a.neg = b.neg /\ a.bits = b.bits
    ELSE a = b

\* python  `v in seq`
PyIn(v, items) == \E i \in 1..Len(items) : PyEq(v, items[i])

\* ------------------------------------------------------------------------
\* numpy types

IntTypes == {"int", "int8", "int16", "int32", "int64"}
UIntTypes == {"uint8", "uint16", "uint32", "uint64"}
FloatTypes == {"float", "float16", "float32", "float64"}

\* i: signed integer, u: unsigned integer, f: floating, O: anything else
Kind(t) ==
    IF t \in IntTypes THEN "i"
    ELSE IF t \in UIntTypes THEN "u"
    ELSE IF t \in FloatTypes THEN "f"
    ELSE "O"

\* size in bits; python int is a C long and python float a C double
Width(t) ==
    CASE t \in {"int8", "uint8"} -> 8
      [] t \in {"int16", "uint16", "float16"} -> 16
      [] t \in {"int32", "uint32", "float32"} -> 32
      [] OTHER -> 64

\* bits of precision of a floating type (the implicit leading bit included)
Mantissa(t) ==
    CASE t = "float16" -> 11
      [] t = "float32" -> 24
      [] OTHER -> 53

\* numpy.can_cast(from_dtype, to_dtype, 'safe')
can_cast_dtype(from, to) ==
    LET fk == Kind(from)
        tk == Kind(to)
        fw == Width(from)
        tw == Width(to)
        \* the smallest float that numpy takes to hold an integer of fw bits
        fneed == IF fw = 8 THEN 16 ELSE IF fw = 16 THEN 32 ELSE 64
    IN  CASE fk = "O" \/ tk = "O" -> FALSE
          [] fk = "i" /\ tk = "i" -> fw <= tw
          [] fk = "u" /\ tk = "u" -> fw <= tw
          [] fk = "u" /\ tk = "i" -> fw < tw
          [] fk = "i" /\ tk = "u" -> FALSE
          [] fk \in {"i", "u"} /\ tk = "f" -> fneed <= tw
          [] fk = "f" /\ tk = "f" -> fw <= tw
          [] OTHER -> FALSE

\* 65000, the bound numpy's min_scalar_type uses for float16
HalfLimit == {3, 5, 6, 7, 8, 10, 11, 12, 13, 14, 15}

\* numpy.min_scalar_type of a scalar, with numpy's "small unsigned" rule:
\* a non-negative integer that also fits the signed type of the same size
\* counts as signed when the target is not unsigned
min_scalar_type(v, to) ==
    IF Kind(v.t) \in {"i", "u"} THEN
        IF v.neg THEN
            CASE MagBelowPow(v.bits, 7) \/ v.bits = {7} -> "int8"
              [] MagBelowPow(v.bits, 15) \/ v.bits = {15} -> "int16"
              [] MagBelowPow(v.bits, 31) \/ v.bits = {31} -> "int32"
              [] OTHER -> "int64"
        ELSE
            LET w == CASE MagBelowPow(v.bits, 8) -> 8
                       [] MagBelowPow(v.bits, 16) -> 16
                       [] MagBelowPow(v.bits, 32) -> 32
                       [] OTHER -> 64
                small == MagBelowPow(v.bits, w - 1)
                signed == small /\ Kind(to) # "u"
            IN  CASE w = 8 -> IF signed THEN "int8" ELSE "uint8"
                  [] w = 16 -> IF signed THEN "int16" ELSE "uint16"
                  [] w = 32 -> IF signed THEN "int32" ELSE "uint32"
                  [] OTHER -> IF signed THEN "int64" ELSE "uint64"
    ELSE IF MagLess(v.bits, HalfLimit) THEN "float16" ELSE "float32"

\* numpy.can_cast(value, type, 'safe') for a scalar value: value based.
\* A value that is no number is not understood as a data type: TypeError,
\* which fails the caller like a False does.
can_cast(v, to) ==
    /\ IsNum(v)
    /\ can_cast_dtype(min_scalar_type(v, to), to)

\* the magnitude `bits` rounded to p significant bits, ties to even
RoundBits(bits, p) ==
    IF bits = {} THEN {}
    ELSE
        LET top == SetMax(bits)
            cut == top - p + 1
            kept == {b \in bits : b >= cut}
            half == (cut - 1) \in bits
            sticky == \E b \in bits : b < cut - 1
            up == half /\ (sticky \/ cut \in bits)
            z == CHOOSE c \in cut..(top + 1) :
                     /\ c \notin kept
                     /\ \A d \in cut..(c - 1) : d \in kept
        IN  IF up THEN {b \in kept : b > z} \cup {z} ELSE kept

\* field_type(value): the value converted to the type
Coerce(ft, v) ==
    IF Kind(ft) = "f" THEN Num(ft, v.neg, RoundBits(v.bits, Mantissa(ft)))
    ELSE Num(ft, v.neg, v.bits)

\* ------------------------------------------------------------------------
\* Results of a call: a return value or a raised exception

Ok(val) == [ok |-> TRUE, exc |-> "", val |-> val, idx |-> -1, msg |-> ""]

Raise(exc, idx) ==
    [ok |-> FALSE, exc |-> exc, val |-> None, idx |-> idx, msg |-> ""]

\* raise exc with a message about msg, where the message tells checks apart
RaiseMsg(exc, msg) ==
    [ok |-> FALSE, exc |-> exc, val |-> None, idx |-> -1, msg |-> msg]

\* ------------------------------------------------------------------------
\* Descriptors

\* ndim=None
NoNdim == -1

NoAttr == [kind |-> "none"]

\* Attr.__init__ keeps its arguments as the descriptor's fields; the fields
\* the subclasses add are at their defaults.
AttrInit(kind, field_type, default, required, readonly, choices) ==
    [kind |-> kind, field_type |-> field_type, default |-> default,
     required |-> required, readonly |-> readonly, choices |-> choices,
     element_type |-> "object", element_choices |-> None,
     dtype |-> "float64", ndim |-> NoNdim, dim_names |-> <<>>, domain |-> None]

\* Int.__init__
IntInit(field_type, default, required, readonly, choices) ==
    AttrInit("Int", field_type, default, required, readonly, choices)

\* Float.__init__
FloatInit(field_type, default, required, readonly, choices) ==
    AttrInit("Float", field_type, default, required, readonly, choices)

\* type(default)
TypeOf(v) == v.t

\* Const.__init__ with readonly left at Attr's False
ConstInit_Writable(default) ==
    AttrInit("Const", TypeOf(default), default, TRUE, FALSE, None)

\* Const.__init__: the field type is the default's, required and readonly
ConstInit(default) ==
    AttrInit("Const", TypeOf(default), default, TRUE, TRUE, None)

\* _Number._post_bind_validate without the look-up of the default in choices
Number_post_bind_validate_AnyDefault(d) ==
    IF d.default # None /\ ~can_cast(d.default, d.field_type)
    THEN Raise("TypeError", -1)
    ELSE Ok(None)

\* _Number._post_bind_validate
Number_post_bind_validate(d) ==
    IF d.default # None /\ ~can_cast(d.default, d.field_type)
    THEN RaiseMsg("TypeError", "cast")
    ELSE IF d.choices # None /\ d.default # None
            /\ ~PyIn(d.default, d.choices.items)
    THEN RaiseMsg("TypeError", "choices")
    ELSE Ok(None)

\* issubclass(field_type, (int, long, numpy.integer))
IsIntegerType(ft) == Kind(ft) \in {"i", "u"} \/ ft = "bool"

\* issubclass(field_type, (float, numpy.floating))
IsFloatingType(ft) == Kind(ft) = "f"

\* Int._post_bind_validate with the super call before the field type check
Int_post_bind_validate_SuperFirst(d) ==
    IF ~Number_post_bind_validate(d).ok THEN Number_post_bind_validate(d)
    ELSE IF ~IsIntegerType(d.field_type)
    THEN RaiseMsg("TypeError", "field_type")
    ELSE Ok(None)

\* Int._post_bind_validate
Int_post_bind_validate(d) ==
    IF ~IsIntegerType(d.field_type) THEN RaiseMsg("TypeError", "field_type")
    ELSE Number_post_bind_validate(d)

\* Float._post_bind_validate
Float_post_bind_validate(d) ==
    IF ~IsFloatingType(d.field_type) THEN RaiseMsg("TypeError", "field_type")
    ELSE Number_post_bind_validate(d)

\* _Number._validate_set that lets None through whatever required says
Number_validate_set_NoneAllowed(d, value) ==
    IF value = None THEN Ok(value)
    ELSE IF ~can_cast(value, d.field_type) THEN Raise("TypeError", -1)
    ELSE IF d.choices # None /\ ~PyIn(value, d.choices.items)
    THEN Raise("ValueError", -1)
    ELSE Ok(Coerce(d.field_type, value))

\* _Number._validate_set casting with 'unsafe' in place of 'safe'
Number_validate_set_UnsafeCast(d, value) ==
    IF value = None THEN
        IF d.required THEN Raise("ValueError", -1) ELSE Ok(value)
    ELSE IF ~IsNum(value) THEN Raise("TypeError", -1)
    ELSE IF d.choices # None /\ ~PyIn(value, d.choices.items)
    THEN Raise("ValueError", -1)
    ELSE Ok(Coerce(d.field_type, value))

\* _Number._validate_set returning the value as it was given
Number_validate_set_Uncoerced(d, value) ==
    IF value = None THEN
        IF d.required THEN Raise("ValueError", -1) ELSE Ok(value)
    ELSE IF ~can_cast(value, d.field_type) THEN Raise("TypeError", -1)
    ELSE IF d.choices # None /\ ~PyIn(value, d.choices.items)
    THEN Raise("ValueError", -1)
    ELSE Ok(value)

\* _Number._validate_set
Number_validate_set(d, value) ==
    IF value = None THEN
        IF d.required THEN Raise("ValueError", -1) ELSE Ok(value)
    ELSE IF ~can_cast(value, d.field_type) THEN Raise("TypeError", -1)
    ELSE IF d.choices # None /\ ~PyIn(value, d.choices.items)
    THEN Raise("ValueError", -1)
    ELSE Ok(Coerce(d.field_type, value))

\* ------------------------------------------------------------------------
\* Objects: lists and arrays live in the heap and values refer to them

Ref(t, k) == [t |-> t, ref |-> k]

IsRef(v) == "ref" \in DOMAIN v

ListObj(items) == [t |-> "list", items |-> items]

ArrayObj(dtype, shape, data) ==
    [t |-> "ndarray", dtype |-> dtype, shape |-> shape, data |-> data,
     writeable |-> TRUE]

\* the elements of a sequence value: a tuple holds them, a list is an object
Items(v, h) == IF v.t = "tuple" THEN v.items ELSE h[v.ref].items

\* isinstance(value, field_type) for the field types of the descriptors
IsInstance(v, ty) ==
    CASE ty = "object" -> TRUE
      [] ty = "Sequence" -> v.t \in {"tuple", "list"}
      [] OTHER -> v.t = ty

\* Attr._post_bind_validate: the default is checked against the declared
\* type and choices
Attr_post_bind_validate(d) ==
    IF d.default # None /\ ~IsInstance(d.default, d.field_type)
    THEN Raise("ConfigurationError", -1)
    ELSE IF d.default # None /\ d.choices # None
            /\ ~PyIn(d.default, d.choices.items)
    THEN Raise("ConfigurationError", -1)
    ELSE Ok(None)

\* Attr._validate_set: None only if not required, then type and choices
Attr_validate_set(d, value) ==
    IF value = None THEN
        IF d.required THEN Raise("ValidationError", -1) ELSE Ok(None)
    ELSE IF ~IsInstance(value, d.field_type)
    THEN Raise("ValidationError", -1)
    ELSE IF d.choices # None /\ ~PyIn(value, d.choices.items)
    THEN Raise("ValidationError", -1)
    ELSE Ok(value)

\* the positions (from 1) of the elements that are no instance of ty
BadType(items, ty) == {i \in 1..Len(items) : ~IsInstance(items[i], ty)}

\* the positions (from 1) of the elements that are not among the choices
BadChoice(items, choices) ==
    IF choices = None THEN {}
    ELSE {i \in 1..Len(items) : ~PyIn(items[i], choices.items)}

SetMin(S) == CHOOSE x \in S : \A y \in S : x <= y

\* List.__init__
ListInit(of, default, readonly, choices) ==
    [AttrInit("List", "Sequence", default, TRUE, readonly, None)
        EXCEPT !.element_type = of, !.element_choices = choices]

\* List._post_bind_validate with one loop that checks type and choices
\* together
List_post_bind_validate_OneLoop(d, h) ==
    LET sup == Attr_post_bind_validate(d)
        items == Items(d.default, h)
        bad == BadType(items, d.element_type)
                   \cup BadChoice(items, d.element_choices)
    IN  IF ~sup.ok THEN sup
        ELSE IF bad # {} THEN Raise("TypeError", SetMin(bad) - 1)
        ELSE Ok(None)

\* List._post_bind_validate: the index cited is enumerate's, from 0
List_post_bind_validate(d, h) ==
    LET sup == Attr_post_bind_validate(d)
        items == Items(d.default, h)
    IN  IF ~sup.ok THEN sup
        ELSE IF BadType(items, d.element_type) # {}
        THEN Raise("TypeError", SetMin(BadType(items, d.element_type)) - 1)
        ELSE IF BadChoice(items, d.element_choices) # {}
        THEN Raise("TypeError", SetMin(BadChoice(items, d.element_choices)) - 1)
        ELSE Ok(None)

\* List._validate_set returning list(value), a copy
List_validate_set_Copy(d, value, h) ==
    LET sup == Attr_validate_set(d, value)
        items == Items(value, h)
    IN  IF ~sup.ok THEN sup
        ELSE IF sup.val = None THEN Ok(None)
        ELSE IF BadType(items, d.element_type) # {}
        THEN Raise("TypeError", SetMin(BadType(items, d.element_type)) - 1)
        ELSE IF BadChoice(items, d.element_choices) # {}
        THEN Raise("ValueError", SetMin(BadChoice(items, d.element_choices)) - 1)
        ELSE Ok([t |-> "new", obj |-> ListObj(items)])

\* List._validate_set with one loop that checks type and choices together
List_validate_set_OneLoop(d, value, h) ==
    LET sup == Attr_validate_set(d, value)
        items == Items(value, h)
        bad == BadType(items, d.element_type)
                   \cup BadChoice(items, d.element_choices)
    IN  IF ~sup.ok THEN sup
        ELSE IF sup.val = None THEN Ok(None)
        ELSE IF bad # {}
        THEN Raise(IF SetMin(bad) \in BadType(items, d.element_type)
                   THEN "TypeError" ELSE "ValueError", SetMin(bad) - 1)
        ELSE Ok(sup.val)

\* List._validate_set: a first loop over the element types, then a second
\* loop over the choices; the sequence itself is returned
List_validate_set(d, value, h) ==
    LET sup == Attr_validate_set(d, value)
        items == Items(value, h)
    IN  IF ~sup.ok THEN sup
        ELSE IF sup.val = None THEN Ok(None)
        ELSE IF BadType(items, d.element_type) # {}
        THEN Raise("TypeError", SetMin(BadType(items, d.element_type)) - 1)
        ELSE IF BadChoice(items, d.element_choices) # {}
        THEN Raise("ValueError", SetMin(BadChoice(items, d.element_choices)) - 1)
        ELSE Ok(sup.val)

\* ------------------------------------------------------------------------
\* Domains

\* a < b for numbers
NumLess(a, b) ==
    IF a.neg # b.neg THEN a.neg
    ELSE IF a.neg THEN MagLess(b.bits, a.bits)
    ELSE MagLess(a.bits, b.bits)

\* Range.__init__
Range(lo, hi, step) == [t |-> "Range", lo |-> lo, hi |-> hi, step |-> step]

\* a membership test that takes hi in: lo <= item <= hi
Range_contains_Closed(r, item) == ~NumLess(item, r.lo) /\ ~NumLess(r.hi, item)

\* Range.__contains__: lo <= item < hi
Range_contains(r, item) == ~NumLess(item, r.lo) /\ NumLess(item, r.hi)

\* LinspaceRange.__init__
LinspaceRange(lo, hi, npoints) ==
    [t |-> "LinspaceRange", lo |-> lo, hi |-> hi, npoints |-> npoints]

\* LinspaceRange.__contains__: lo <= item < hi
LinspaceRange_contains(r, item) ==
    ~NumLess(item, r.lo) /\ NumLess(item, r.hi)

\* numbers as multiples of 2^-10, for the arithmetic of the domains
Unit == 2^10

Abs(q) == IF q < 0 THEN -q ELSE q

\* the number q / Unit
ToNum(q) ==
    Num(IF q % Unit = 0 THEN "int" ELSE "float", q < 0,
        {k - 10 : k \in {j \in 0..20 : (Abs(q) \div 2^j) % 2 = 1}})

RECURSIVE SumPow(_)
SumPow(S) ==
    IF S = {} THEN 0
    ELSE LET b == CHOOSE x \in S : TRUE
         IN  2^(b + 10) + SumPow(S \ {b})

\* v * Unit, for a number v that is a multiple of 2^-10
FromNum(v) == IF v.neg THEN -SumPow(v.bits) ELSE SumPow(v.bits)

\* numpy.linspace without its last sample placed on stop
linspace_Open(start, stop, num) ==
    LET lo == FromNum(start)
        hi == FromNum(stop)
    IN  [i \in 1..num |-> ToNum(lo + ((i - 1) * (hi - lo)) \div num)]

\* numpy.linspace(start, stop, num): num samples, step (stop - start) /
\* (num - 1), the last sample set to stop
linspace(start, stop, num) ==
    LET lo == FromNum(start)
        hi == FromNum(stop)
    IN  IF num = 1 THEN <<start>>
        ELSE [i \in 1..num |->
                 IF i = num THEN stop
                 ELSE ToNum(lo + ((i - 1) * (hi - lo)) \div (num - 1))]

\* LinspaceRange.to_array
LinspaceRange_to_array(r) == linspace(r.lo, r.hi, r.npoints)

\* ------------------------------------------------------------------------
\* NArray

\* NArray.__init__ without the comparison of ndim and dim_names
NArrayInit_Unchecked(default, required, dtype, ndim, dim_names, domain) ==
    Ok([AttrInit("NArray", "ndarray", default, required, FALSE, None)
           EXCEPT !.dtype = dtype,
                  !.ndim = IF Len(dim_names) # 0 THEN Len(dim_names)
                           ELSE ndim,
                  !.dim_names = dim_names,
                  !.domain = domain])

\* NArray.__init__: raises when dim_names and ndim are both given and differ
NArrayInit(default, required, dtype, ndim, dim_names, domain) ==
    IF Len(dim_names) # 0 /\ ndim # NoNdim /\ ndim # Len(dim_names)
    THEN Raise("ValueError", -1)
    ELSE Ok([AttrInit("NArray", "ndarray", default, required, FALSE, None)
                EXCEPT !.dtype = dtype,
                       !.ndim = IF Len(dim_names) # 0 THEN Len(dim_names)
                                ELSE ndim,
                       !.dim_names = dim_names,
                       !.domain = domain])

\* numpy.can_cast(array, dtype, 'safe'): by the array's dtype, and by its
\* value when the array is zero-dimensional
can_cast_array(a, to) ==
    IF Len(a.shape) = 0 THEN can_cast(a.data[1], to)
    ELSE can_cast_dtype(a.dtype, to)

\* setflags that leaves the flag as it was
setflags_Noop(h, k, w) == h

\* ndarray.setflags(write=w) on the object k
setflags(h, k, w) == [h EXCEPT ![k].writeable = w]

\* NArray._post_bind_validate that raises for a default with an element
\* outside the domain
NArray_post_bind_validate_DomainFails(d, h) ==
    IF d.default = None THEN Ok(None)
    ELSE IF d.default.t # "ndarray" THEN Raise("TypeError", -1)
    ELSE IF ~can_cast_array(h[d.default.ref], d.dtype)
    THEN Raise("ValueError", -1)
    ELSE IF d.ndim # NoNdim /\ Len(h[d.default.ref].shape) # d.ndim
    THEN Raise("ValueError", -1)
    ELSE IF d.domain # None
            /\ \E i \in 1..Len(h[d.default.ref].data) :
                   ~Range_contains(d.domain, h[d.default.ref].data[i])
    THEN Raise("ValueError", -1)
    ELSE Ok(None)

\* NArray._post_bind_validate without the check of the default's rank
NArray_post_bind_validate_AnyRank(d, h) ==
    IF d.default = None THEN Ok(None)
    ELSE IF d.default.t # "ndarray" THEN Raise("TypeError", -1)
    ELSE IF ~can_cast_array(h[d.default.ref], d.dtype)
    THEN Raise("ValueError", -1)
    ELSE Ok(None)

\* NArray._post_bind_validate raising TypeError for every failed check
NArray_post_bind_validate_AllTypeError(d, h) ==
    IF d.default = None THEN Ok(None)
    ELSE IF d.default.t # "ndarray" THEN Raise("TypeError", -1)
    ELSE IF ~can_cast_array(h[d.default.ref], d.dtype)
    THEN Raise("TypeError", -1)
    ELSE IF d.ndim # NoNdim /\ Len(h[d.default.ref].shape) # d.ndim
    THEN Raise("TypeError", -1)
    ELSE Ok(None)

\* NArray._post_bind_validate, its checks
NArray_post_bind_validate(d, h) ==
    IF d.default = None THEN Ok(None)
    ELSE IF d.default.t # "ndarray" THEN Raise("TypeError", -1)
    ELSE IF ~can_cast_array(h[d.default.ref], d.dtype)
    THEN Raise("ValueError", -1)
    ELSE IF d.ndim # NoNdim /\ Len(h[d.default.ref].shape) # d.ndim
    THEN Raise("ValueError", -1)
    ELSE Ok(None)

\* NArray._post_bind_validate, the heap it leaves: a default that passed
\* the checks is made read only
NArray_post_bind_heap(d, h) ==
    IF d.default # None /\ NArray_post_bind_validate(d, h).ok
    THEN setflags(h, d.default.ref, FALSE)
    ELSE h

\* NArray._post_bind_validate, whether the domain warning is logged
NArray_post_bind_warns(d, h) ==
    /\ NArray_post_bind_validate(d, h).ok
    /\ d.domain # None
    /\ d.default # None
    /\ \E i \in 1..Len(h[d.default.ref].data) :
           ~Range_contains(d.domain, h[d.default.ref].data[i])

\* NArray._post_bind_validate, the number of warnings it logs: the loop
\* over the elements breaks at the first one outside the domain
NArray_post_bind_warnings(d, h) ==
    IF NArray_post_bind_warns(d, h) THEN 1 ELSE 0

\* a value that is an object made by the call and not yet in the heap
New(obj) == [t |-> "new", obj |-> obj]

\* astype(dtype, copy=False): the array itself when it has the dtype already
astype_NoCopy(h, value, dtype) ==
    LET a == h[value.ref]
    IN  IF a.dtype = dtype THEN value
        ELSE New(ArrayObj(dtype, a.shape,
                          [i \in 1..Len(a.data) |-> Coerce(dtype, a.data[i])]))

\* astype that relabels the array and leaves the elements unconverted
astype_Relabel(h, value, dtype) ==
    LET a == h[value.ref]
    IN  New(ArrayObj(dtype, a.shape, a.data))

\* ndarray.astype(dtype): always a new array
astype(h, value, dtype) ==
    LET a == h[value.ref]
    IN  New(ArrayObj(dtype, a.shape,
                     [i \in 1..Len(a.data) |-> Coerce(dtype, a.data[i])]))

\* NArray._validate_set without the check of the rank
NArray_validate_set_AnyRank(d, value, h) ==
    LET sup == Attr_validate_set(d, value)
    IN  IF ~sup.ok THEN sup
        ELSE IF sup.val = None THEN Ok(None)
        ELSE IF ~can_cast_dtype(h[value.ref].dtype, d.dtype)
        THEN Raise("TypeError", -1)
        ELSE Ok(astype(h, sup.val, d.dtype))

\* NArray._validate_set
NArray_validate_set(d, value, h) ==
    LET sup == Attr_validate_set(d, value)
    IN  IF ~sup.ok THEN sup
        ELSE IF sup.val = None THEN Ok(None)
        ELSE IF d.ndim # NoNdim /\ Len(h[value.ref].shape) # d.ndim
        THEN Raise("TypeError", -1)
        ELSE IF ~can_cast_dtype(h[value.ref].dtype, d.dtype)
        THEN Raise("TypeError", -1)
        ELSE Ok(astype(h, sup.val, d.dtype))

\* ------------------------------------------------------------------------
\* The inputs the model draws from

\* operations (assignments and writes) made after the declarations
MaxOps == 2

Names == {"x", "y"}

I3 == Num("int", FALSE, {0, 1})
\* numpy.int16(200)
N200 == Num("int16", FALSE, {3, 6, 7})
\* 2^53 + 1
IBig == Num("int", FALSE, {0, 53})
F3 == Num("float", FALSE, {0, 1})
F2049 == Num("float", FALSE, {0, 11})

Scalars == {None, I3, N200, IBig, F3, F2049, Str}

IntFieldTypes == {"int", "int8", "float"}
FloatFieldTypes == {"float", "float16", "int"}
NumDefaults == {None, I3, N200, F3}
NumChoices == {None, Tuple(<<I3>>), Tuple(<<F2049>>)}

I0 == Num("int", FALSE, {})
I5 == Num("int", FALSE, {0, 2})
I7 == Num("int", FALSE, {0, 1, 2})

ElementTypes == {"int", "object"}
ElementChoices == {None, Tuple(<<I3>>)}
ListDefaults == {<<>>, <<I3>>, <<I3, I5>>, <<I5, Str>>}
ListInputs == {<<>>, <<I3>>, <<I3, I5>>, <<I5, Str>>, <<Str, I5>>, <<I3, I3>>}

ConstDefaults == {I3, F3, Str}

\* ends, steps and items of the domains, in multiples of 2^-10:
\* -1, 0, 3, 10; 0.5, 1, 2; and 10 - 2^-10 standing for 9.999
DomainEnds == {-1024, 0, 3072, 10240}
DomainSteps == {512, 1024, 2048}
DomainItems == {-2048, -1024, -1, 0, 1, 3071, 3072, 10239, 10240, 20480}
DomainPoints == {0, 1, 2, 3, 5}

\* a value that is neither a sequence nor an array
NonObjects == {None, I3}

Int64(bits) == Num("int64", FALSE, bits)
Float64(bits) == Num("float64", FALSE, bits)

\* numpy.array([1, 2, 3])
A_i3 == ArrayObj("int64", <<3>>, <<Int64({0}), Int64({1}), Int64({0, 1})>>)
\* numpy.array([[1, 2, 3], [4, 5, 6], [7, 8, 2**53 + 1]])
A_i33 ==
    ArrayObj("int64", <<3, 3>>,
             <<Int64({0}), Int64({1}), Int64({0, 1}),
               Int64({2}), Int64({0, 2}), Int64({1, 2}),
               Int64({0, 1, 2}), Int64({3}), Int64({0, 53})>>)
\* numpy.array([1.5, 2.0])
A_f2 == ArrayObj("float64", <<2>>, <<Float64({-1, 0}), Float64({1})>>)

Arrays == {A_i3, A_i33, A_f2}
DTypes == {"float64", "int64"}
NDims == {NoNdim, 1, 2}
DimNames == {<<>>, <<"time", "space">>}
\* Range(0, 3)
R03 == Range(I0, I3, Num("float", FALSE, {0}))

\* ------------------------------------------------------------------------
\* State

VARIABLES
    attrs,   \* the descriptors declared in the owning class, by name
    bound,   \* per name: "no", "ok", or the exception binding raised
    dict,    \* per instance and name: the instance's __dict__ entry
    heap,    \* the list and array objects, a value refers to one by index
    ops,     \* the number of assignments and writes made
    last     \* the last operation and its outcome

vars == <<attrs, bound, dict, heap, ops, last>>

\* no entry in the instance's __dict__
Unset == [t |-> "unset"]

\* an operation and its outcome; pre is the __dict__ entry it found
Op(op, name, inst, arg, pre, res) ==
    [op |-> op, name |-> name, inst |-> inst, arg |-> arg, pre |-> pre,
     ok |-> res.ok, exc |-> res.exc, idx |-> res.idx, msg |-> res.msg,
     warn |-> 0]

Init ==
    /\ attrs = [n \in Names |-> NoAttr]
    /\ bound = [n \in Names |-> "no"]
    /\ dict = [i \in Insts |-> [n \in Names |-> Unset]]
    /\ heap = <<>>
    /\ ops = 0
    /\ last = Op("init", "", 0, None, Unset, Ok(None))

\* the class body is still being written: nothing is bound yet
\* and no declaration has raised
Declaring(n) ==
    /\ attrs[n] = NoAttr
    /\ \A m \in Names : bound[m] = "no"
    /\ ~(last.op = "declare" /\ ~last.ok)

\* the owning class exists: every declared descriptor is bound
ClassCreated ==
    \A m \in Names : attrs[m] = NoAttr \/ bound[m] = "ok"

\* Attr.__get__: the instance's value, or the default when it has none
Get(i, n) == IF dict[i][n] # Unset THEN dict[i][n] ELSE attrs[n].default

\* ------------------------------------------------------------------------
\* Declarations

Declare(n, d) ==
    /\ Declaring(n)
    /\ attrs' = [attrs EXCEPT ![n] = d]
    /\ last' = Op("declare", n, 0, None, Unset, Ok(None))
    /\ UNCHANGED <<bound, dict, heap, ops>>

DeclareInt(n) ==
    \E ft \in IntFieldTypes, default \in NumDefaults, choices \in NumChoices,
       required \in BOOLEAN, readonly \in BOOLEAN :
        Declare(n, IntInit(ft, default, required, readonly, choices))

\* Int() with nothing given
DeclareIntPlain(n) == Declare(n, IntInit("int", I0, TRUE, FALSE, None))

DeclareFloat(n) ==
    \E ft \in FloatFieldTypes, default \in NumDefaults, choices \in NumChoices,
       required \in BOOLEAN, readonly \in BOOLEAN :
        Declare(n, FloatInit(ft, default, required, readonly, choices))

DeclareList(n) ==
    \E of \in ElementTypes, default \in ListDefaults,
       choices \in ElementChoices, readonly \in BOOLEAN :
        Declare(n, ListInit(of, Tuple(default), readonly, choices))

DeclareConst(n) ==
    \E default \in ConstDefaults : Declare(n, ConstInit(default))

\* Const([...]): the default is a list the class body makes
DeclareConstList(n) ==
    \E items \in ListDefaults :
        /\ Declaring(n)
        /\ attrs' = [attrs EXCEPT
                        ![n] = ConstInit(Ref("list", Len(heap) + 1))]
        /\ heap' = Append(heap, ListObj(items))
        /\ last' = Op("declare", n, 0, Ref("list", Len(heap) + 1), Unset,
                      Ok(None))
        /\ UNCHANGED <<bound, dict, ops>>

\* NArray(...) with h the heap holding the default the caller has made
DeclareArray(n, default, required, dtype, ndim, dim_names, domain, h) ==
    /\ Declaring(n)
    /\ LET r == NArrayInit(default, required, dtype, ndim, dim_names, domain)
       IN  /\ attrs' = IF r.ok THEN [attrs EXCEPT ![n] = r.val] ELSE attrs
           /\ last' = Op("declare", n, 0,
                         [t |-> "NArray", ndim |-> ndim, dim_names |-> dim_names],
                         Unset, r)
    /\ heap' = h
    /\ UNCHANGED <<bound, dict, ops>>

\* NArray(default=None or a number, ...)
DeclareNArray(n) ==
    \E default \in NonObjects, required \in BOOLEAN, dtype \in DTypes,
       ndim \in NDims, dim_names \in DimNames :
        DeclareArray(n, default, required, dtype, ndim, dim_names, None, heap)

\* NArray(default=numpy.array(...), ...)
DeclareNArrayDefault(n) ==
    \E a \in Arrays, required \in BOOLEAN, dtype \in DTypes,
       ndim \in NDims, dim_names \in DimNames, domain \in {None, R03} :
        DeclareArray(n, Ref("ndarray", Len(heap) + 1), required, dtype, ndim,
                     dim_names, domain, Append(heap, a))

\* NArray(dtype=..., default=...) with nothing else given
DeclareNArrayPlain(n) ==
    \/ \E dtype \in DTypes :
           DeclareArray(n, None, TRUE, dtype, NoNdim, <<>>, None, heap)
    \/ \E a \in Arrays, dtype \in DTypes :
           DeclareArray(n, Ref("ndarray", Len(heap) + 1), TRUE, dtype, NoNdim,
                        <<>>, None, Append(heap, a))

\* ------------------------------------------------------------------------
\* Binding: the owning class calls _post_bind_validate of the descriptor

post_bind_validate(d, h) ==
    CASE d.kind = "Int" -> Int_post_bind_validate(d)
      [] d.kind = "Float" -> Float_post_bind_validate(d)
      [] d.kind = "List" -> List_post_bind_validate(d, h)
      [] d.kind = "NArray" -> NArray_post_bind_validate(d, h)
      [] OTHER -> Attr_post_bind_validate(d)

Bind(n) ==
    /\ attrs[n] # NoAttr
    /\ bound[n] = "no"
    /\ LET d == attrs[n]
           r == post_bind_validate(d, heap)
       IN  /\ bound' = [bound EXCEPT ![n] = IF r.ok THEN "ok" ELSE r.exc]
           /\ heap' = IF d.kind = "NArray" THEN NArray_post_bind_heap(d, heap)
                      ELSE heap
           /\ last' = [Op("bind", n, 0, None, Unset, r) EXCEPT
                          !.warn = IF d.kind = "NArray"
                                   THEN NArray_post_bind_warnings(d, heap)
                                   ELSE 0]
    /\ UNCHANGED <<attrs, dict, ops>>

\* ------------------------------------------------------------------------
\* Assignment

validate_set(d, value, h) ==
    CASE d.kind \in {"Int", "Float"} -> Number_validate_set(d, value)
      [] d.kind = "List" -> List_validate_set(d, value, h)
      [] d.kind = "NArray" -> NArray_validate_set(d, value, h)
      [] OTHER -> Attr_validate_set(d, value)

\* a readonly rule that guards the Const alone
ReadonlyRefuses_ConstOnly(d, was) ==
    d.readonly /\ d.kind = "Const"

\* the readonly rule: a readonly attribute takes no value after its first,
\* and a Const, whose value is its default, takes none at all
ReadonlyRefuses(d, was) ==
    d.readonly /\ (was # Unset \/ d.kind = "Const")

\* Attr.__set__: a readonly attribute takes no second value; the validated
\* value is put in the instance's __dict__
Attr_set(d, was, value, h) ==
    IF ReadonlyRefuses(d, was) THEN Raise("ValidationError", -1)
    ELSE validate_set(d, value, h)

\* a store on the class: every instance gets the value
Store_Shared(d, i, n, stored) == [j \in DOMAIN d |-> [d[j] EXCEPT ![n] = stored]]

\* instance.__dict__[n] = stored
Store(d, i, n, stored) == [d EXCEPT ![i][n] = stored]

\* instance.n = value, with h the heap as the caller has prepared it
\* a __set__ that writes the entry before it validates the value
Attr_set_store_Unvalidated(d, i, n, r, stored, value) ==
    Store(d, i, n, IF r.ok THEN stored ELSE value)

\* the entry is written with what validation returned, after it returned;
\* a validation that raised has left __set__ before the write
Attr_set_store(d, i, n, r, stored, value) ==
    IF r.ok THEN Store(d, i, n, stored) ELSE d

DoSet(i, n, value, h) ==
    /\ attrs[n] # NoAttr
    /\ ClassCreated
    /\ ops < MaxOps
    /\ LET r == Attr_set(attrs[n], dict[i][n], value, h)
           fresh == r.ok /\ r.val.t = "new"
           stored == IF fresh THEN Ref(r.val.obj.t, Len(h) + 1) ELSE r.val
       IN  /\ heap' = IF fresh THEN Append(h, r.val.obj) ELSE h
           /\ dict' = Attr_set_store(dict, i, n, r, stored, value)
           /\ last' = Op("set", n, i, value, dict[i][n], r)
    /\ ops' = ops + 1
    /\ UNCHANGED <<attrs, bound>>

\* instance.n = a number, a str or None
SetScalar(n) ==
    \E i \in Insts, v \in Scalars : DoSet(i, n, v, heap)

\* instance.n = None, or a number
SetOther(n) ==
    \E i \in Insts, v \in NonObjects : DoSet(i, n, v, heap)

\* instance.n = [...], a list the caller makes and keeps
SetNewList(n) ==
    \E i \in Insts, s \in ListInputs :
        DoSet(i, n, Ref("list", Len(heap) + 1), Append(heap, ListObj(s)))

\* instance.n = numpy.array(...), an array the caller makes and keeps
SetNewArray(n) ==
    \E i \in Insts, a \in Arrays :
        DoSet(i, n, Ref("ndarray", Len(heap) + 1), Append(heap, a))

\* instance.n = an array that exists already: the default, the value of
\* an instance or an array the caller has kept
SetHeldArray(n) ==
    \E i \in Insts, k \in 1..Len(heap) :
        /\ heap[k].t = "ndarray"
        /\ DoSet(i, n, Ref("ndarray", k), heap)

\* a[0] = 7 or a[-1] = 7 (on the flattened array) for an array the caller
\* holds: the write is refused when the array is read only
WriteArray ==
    \E k \in 1..Len(heap) :
        /\ heap[k].t = "ndarray"
        /\ ops < MaxOps
        /\ \E p \in {1, Len(heap[k].data)} :
               /\ heap' = IF heap[k].writeable
                          THEN [heap EXCEPT ![k].data[p] = Coerce(heap[k].dtype, I7)]
                          ELSE heap
               /\ last' = [Op("write", "", 0, Ref("ndarray", k), Unset,
                              IF heap[k].writeable THEN Ok(None)
                              ELSE Raise("ValueError", -1))
                              EXCEPT !.idx = p]
        /\ ops' = ops + 1
        /\ UNCHANGED <<attrs, bound, dict>>

\* a read that hands out a copy of the object: copy.deepcopy(value)
ReadObject_Copy(h, v) ==
    [heap |-> Append(h, h[v.ref]), val |-> Ref(v.t, Len(h) + 1)]

\* the object a read of instance.n hands out: the value itself
ReadObject(h, v) == [heap |-> h, val |-> v]

\* instance.n.append(v): an in-place change made through one instance
MutateViaInstance(n) ==
    \E i \in Insts, v \in {I5, Str} :
        /\ attrs[n] # NoAttr
        /\ ClassCreated
        /\ Get(i, n).t = "list"
        /\ ops < MaxOps
        /\ LET r == ReadObject(heap, Get(i, n))
           IN  /\ heap' = [r.heap EXCEPT ![r.val.ref].items = Append(@, v)]
               /\ last' = Op("mutate", n, i, r.val, dict[i][n], Ok(None))
        /\ ops' = ops + 1
        /\ UNCHANGED <<attrs, bound, dict>>

\* lst.append(v) on a list the caller holds: no descriptor is involved
MutateList ==
    \E k \in 1..Len(heap), v \in {I5, Str} :
        /\ heap[k].t = "list"
        /\ ops < MaxOps
        /\ heap' = [heap EXCEPT ![k].items = Append(@, v)]
        /\ last' = Op("mutate", "", 0, Ref("list", k), Unset, Ok(None))
        /\ ops' = ops + 1
        /\ UNCHANGED <<attrs, bound, dict>>

\* ------------------------------------------------------------------------
\* Reading

\* a read that takes the value out of the instance's __dict__
AfterGet_Pop(d, i, n) == [d EXCEPT ![i][n] = Unset]

\* the instance __dict__s after instance.n was read: as they were
AfterGet(d, i, n) == d

\* instance.n is read (List.__get__ and NArray.__get__ call Attr.__get__);
\* arg keeps the value returned
GetAttr(n) ==
    \E i \in Insts :
        /\ attrs[n] # NoAttr
        /\ ClassCreated
        /\ last' = Op("get", n, i, Get(i, n), dict[i][n], Ok(None))
        /\ dict' = AfterGet(dict, i, n)
        /\ UNCHANGED <<attrs, bound, heap, ops>>

\* ------------------------------------------------------------------------
\* Domains: the membership test and the samples, applied to given inputs

\* a call on a domain: q keeps the inputs as multiples of 2^-10, out the
\* samples a to_array call returned
Query(domain, item, q, out) ==
    [t |-> "query", domain |-> domain, item |-> item, q |-> q, out |-> out]

Answer(b) == [ok |-> b, exc |-> "", idx |-> -1, msg |-> ""]

\* item in Range(lo, hi, step)
RangeContains ==
    /\ last.op = "init"
    /\ \E lo \in DomainEnds, hi \in DomainEnds, step \in DomainSteps,
       x \in DomainItems :
        LET r == Range(ToNum(lo), ToNum(hi), ToNum(step))
        IN  /\ last' = Op("contains", "", 0,
                          Query(r, ToNum(x), <<lo, hi, x, step>>, <<>>), Unset,
                          Answer(Range_contains(r, ToNum(x))))
            /\ UNCHANGED <<attrs, bound, dict, heap, ops>>

\* item in LinspaceRange(lo, hi, npoints)
LinspaceContains ==
    /\ last.op = "init"
    /\ \E lo \in DomainEnds, hi \in DomainEnds, n \in DomainPoints,
       x \in DomainItems :
        LET r == LinspaceRange(ToNum(lo), ToNum(hi), n)
        IN  /\ last' = Op("contains", "", 0,
                          Query(r, ToNum(x), <<lo, hi, x, n>>, <<>>), Unset,
                          Answer(LinspaceRange_contains(r, ToNum(x))))
            /\ UNCHANGED <<attrs, bound, dict, heap, ops>>

\* LinspaceRange(lo, hi, npoints).to_array()
LinspaceToArray ==
    /\ last.op = "init"
    /\ \E lo \in DomainEnds, hi \in DomainEnds, n \in DomainPoints :
        LET r == LinspaceRange(ToNum(lo), ToNum(hi), n)
        IN  /\ last' = Op("to_array", "", 0,
                          Query(r, None, <<lo, hi, 0, n>>,
                                LinspaceRange_to_array(r)), Unset,
                          Answer(TRUE))
            /\ UNCHANGED <<attrs, bound, dict, heap, ops>>

\* ------------------------------------------------------------------------
\* Analyzers: times are in multiples of 2^-10 ms and sample periods are
\* powers of two, so that the floating-point products and quotients of
\* the code are exact

\* int(x) of the quotient a / b: truncation towards zero
TruncDiv(a, b) == IF a >= 0 THEN a \div b ELSE -((-a) \div b)

Max(a, b) == IF a >= b THEN a ELSE b

Min(a, b) == IF a <= b THEN a ELSE b

\* the index range slice(start, stop) selects on an axis of length n, for
\* start and stop that are not negative
Slice(start, stop, n) ==
    [start |-> Min(start, n), stop |-> Max(Min(stop, n), Min(start, n))]

\* a 4-D shape (tpts, vars, nodes, modes)
Shape(tpts, nvars, nodes, modes) == <<tpts, nvars, nodes, modes>>

CorrelationCoefficient_result_shape(input_shape) ==
    <<input_shape[3], input_shape[3], input_shape[2], input_shape[4]>>

\* numpy.sum(map(numpy.prod, shape)) * 8.0: numpy.prod of one dimension is
\* that dimension, and the sum adds the four of them
CorrelationCoefficient_result_size(input_shape) ==
    LET rs == CorrelationCoefficient_result_shape(input_shape)
    IN  (rs[1] + rs[2] + rs[3] + rs[4]) * 8

CorrelationCoefficient_extended_result_size(input_shape) ==
    CorrelationCoefficient_result_size(input_shape)

\* the time points evaluate takes for every state variable and mode
CorrelationCoefficient_evaluate(sample_period, t_start, t_end, input_shape) ==
    LET t_lo0 == TruncDiv(t_start - sample_period, sample_period)
        t_hi0 == TruncDiv(t_end - sample_period, sample_period)
        t_lo == Max(t_lo0, 0)
        t_hi == Max(t_hi0, input_shape[1])
    IN  [t_lo |-> t_lo, t_hi |-> t_hi,
         time |-> Slice(t_lo, t_hi + 1, input_shape[1]),
         shape |-> CorrelationCoefficient_result_shape(input_shape)]

\* the first time point ProxyMetastabilitySynchrony.evaluate keeps and the
\* number of time points of data[start_tpt:, :]
ProxyMetastabilitySynchrony_evaluate(start_point, sample_period, segment, tpts) ==
    LET given == start_point # 0
        \* start_point / sample_period > tpts
        beyond == given /\ start_point > tpts * sample_period
        start_tpt == IF beyond THEN (segment - 1) * (tpts \div segment)
                     ELSE IF given THEN TruncDiv(start_point, sample_period)
                     ELSE 0
    IN  [start_tpt |-> start_tpt,
         window |-> Slice(start_tpt, tpts, tpts).stop
                        - Slice(start_tpt, tpts, tpts).start]

\* sample periods 0.5, 1 and 2 ms
SamplePeriods == {512, 1024, 2048}
\* 0, the default 0.9765625, 1, 2.5 and 4 ms
StartTimes == {0, 1000, 1024, 2560, 4096}
\* 1, 3, 5, 8 ms and the default 1000 ms
EndTimes == {1024, 3072, 5120, 8192, 1024000}
Tpts == {1, 4, 8}
Shapes == {Shape(t, v, n, m) : t \in Tpts, v \in {1, 2}, n \in {1, 2, 3},
                               m \in {1, 3}}
Segments == {1, 2, 5, 9}

Call(args, out) == [t |-> "call", args |-> args, out |-> out]

CorrEvaluate ==
    /\ last.op = "init"
    /\ \E sp \in SamplePeriods, t_start \in StartTimes, t_end \in EndTimes,
          shape \in Shapes :
        /\ last' = Op("evaluate", "CorrelationCoefficient", 0,
                      Call([sample_period |-> sp, t_start |-> t_start,
                            t_end |-> t_end, shape |-> shape],
                           CorrelationCoefficient_evaluate(sp, t_start, t_end,
                                                           shape)),
                      Unset, Ok(None))
        /\ UNCHANGED <<attrs, bound, dict, heap, ops>>

CorrResultShape ==
    /\ last.op = "init"
    /\ \E shape \in Shapes :
        /\ last' = Op("result_shape", "CorrelationCoefficient", 0,
                      Call([shape |-> shape],
                           CorrelationCoefficient_result_shape(shape)),
                      Unset, Ok(None))
        /\ UNCHANGED <<attrs, bound, dict, heap, ops>>

CorrResultSize ==
    /\ last.op = "init"
    /\ \E shape \in Shapes :
        /\ last' = Op("result_size", "CorrelationCoefficient", 0,
                      Call([shape |-> shape],
                           CorrelationCoefficient_result_size(shape)),
                      Unset, Ok(None))
        /\ UNCHANGED <<attrs, bound, dict, heap, ops>>

CorrExtendedResultSize ==
    /\ last.op = "init"
    /\ \E shape \in Shapes :
        /\ last' = Op("extended_result_size", "CorrelationCoefficient", 0,
                      Call([shape |-> shape],
                           CorrelationCoefficient_extended_result_size(shape)),
                      Unset, Ok(None))
        /\ UNCHANGED <<attrs, bound, dict, heap, ops>>

MetaEvaluate ==
    /\ last.op = "init"
    /\ \E sp \in SamplePeriods, start_point \in StartTimes \cup EndTimes,
          segment \in Segments, tpts \in Tpts :
        /\ last' = Op("evaluate", "ProxyMetastabilitySynchrony", 0,
                      Call([sample_period |-> sp, start_point |-> start_point,
                            segment |-> segment, tpts |-> tpts],
                           ProxyMetastabilitySynchrony_evaluate(start_point, sp,
                                                                segment, tpts)),
                      Unset, Ok(None))
        /\ UNCHANGED <<attrs, bound, dict, heap, ops>>

\* ------------------------------------------------------------------------
\* Specifications

NextNumber ==
    \/ DeclareInt("x")
    \/ DeclareFloat("x")
    \/ Bind("x")
    \/ SetScalar("x")

SpecNumber == Init /\ [][NextNumber]_vars

NextList ==
    \/ DeclareList("x")
    \/ Bind("x")
    \/ SetNewList("x")
    \/ SetOther("x")

SpecList == Init /\ [][NextList]_vars

NextNArray ==
    \/ DeclareNArray("x")
    \/ DeclareNArrayDefault("x")
    \/ Bind("x")
    \/ SetNewArray("x")
    \/ SetOther("x")

SpecNArray == Init /\ [][NextNArray]_vars

NextConst ==
    \/ DeclareConst("x")
    \/ DeclareConst("y")
    \/ Bind("x")
    \/ Bind("y")
    \/ SetScalar("x")
    \/ SetScalar("y")

SpecConst == Init /\ [][NextConst]_vars

NextRequired ==
    \/ DeclareInt("x")
    \/ DeclareFloat("x")
    \/ DeclareList("x")
    \/ DeclareNArray("x")
    \/ Bind("x")
    \/ SetOther("x")

SpecRequired == Init /\ [][NextRequired]_vars

NextListAlias ==
    \/ DeclareList("x")
    \/ Bind("x")
    \/ SetNewList("x")
    \/ MutateList

SpecListAlias == Init /\ [][NextListAlias]_vars

NextConstShared ==
    \/ DeclareConstList("x")
    \/ Bind("x")
    \/ MutateViaInstance("x")
    \/ SetOther("x")
    \/ GetAttr("x")

SpecConstShared == Init /\ [][NextConstShared]_vars

NextSetFails ==
    \/ DeclareInt("x")
    \/ DeclareList("x")
    \/ DeclareNArray("x")
    \/ DeclareIntPlain("y")
    \/ Bind("x")
    \/ Bind("y")
    \/ SetOther("x")
    \/ SetOther("y")
    \/ SetNewList("x")
    \/ SetNewArray("x")

SpecSetFails == Init /\ [][NextSetFails]_vars

NextCorrelation ==
    \/ CorrEvaluate
    \/ CorrResultShape
    \/ CorrResultSize
    \/ CorrExtendedResultSize

SpecCorrelation == Init /\ [][NextCorrelation]_vars

NextMetastability == MetaEvaluate

SpecMetastability == Init /\ [][NextMetastability]_vars

NextGet ==
    \/ DeclareNArrayPlain("x")
    \/ Bind("x")
    \/ SetNewArray("x")
    \/ WriteArray
    \/ GetAttr("x")

SpecGet == Init /\ [][NextGet]_vars

NextDomain ==
    \/ RangeContains
    \/ LinspaceContains
    \/ LinspaceToArray

SpecDomain == Init /\ [][NextDomain]_vars

NextAlias ==
    \/ DeclareNArrayPlain("x")
    \/ Bind("x")
    \/ SetNewArray("x")
    \/ SetHeldArray("x")
    \/ WriteArray

SpecAlias == Init /\ [][NextAlias]_vars

\* ------------------------------------------------------------------------
\* Claims about Int and Float

\* the last operation was an assignment to an Int or Float attribute
NumberSet ==
    /\ last.op = "set"
    /\ attrs[last.name].kind \in {"Int", "Float"}

\* the readonly rule of Attr.__set__ refused the last assignment
Refused == ReadonlyRefuses(attrs[last.name], last.pre)

C2_GetReturnsCoerced ==
    NumberSet /\ last.ok /\ last.arg # None =>
        LET d == attrs[last.name]
            got == Get(last.inst, last.name)
        IN  /\ got.t = d.field_type
            /\ got = Coerce(d.field_type, last.arg)
            /\ d.field_type = "float" /\ last.arg = I3 => got = F3

\* C2 witness: 3 was assigned to a Float of type float and reads as 3.0.
C2_Witness ==
    /\ NumberSet
    /\ last.ok
    /\ attrs[last.name].kind = "Float"
    /\ attrs[last.name].field_type = "float"
    /\ last.arg = I3
    /\ Get(last.inst, last.name) = F3

\* a numeric descriptor with both choices and a default has been through
\* binding
NumberBoundWithChoices(n) ==
    /\ attrs[n] # NoAttr
    /\ attrs[n].kind \in {"Int", "Float"}
    /\ bound[n] # "no"
    /\ attrs[n].choices # None
    /\ attrs[n].default # None

\* the field type is of the attribute's kind
ValidFieldType(d) ==
    IF d.kind = "Int" THEN IsIntegerType(d.field_type)
    ELSE IsFloatingType(d.field_type)

\* C3 (as stated): with choices and default both set, binding a numeric
\* attribute succeeds if and only if the default is one of the choices
\* (read here for the declarations whose field type is valid).
C3_Original ==
    \A n \in Names :
        NumberBoundWithChoices(n) /\ ValidFieldType(attrs[n]) =>
            (bound[n] = "ok" <=> PyIn(attrs[n].default, attrs[n].choices.items))

\* C3 (amended): with choices and default both set, binding succeeds if and
\* only if the field type is of the attribute's kind (an integer type for
\* Int, a floating type for Float), the default is safely castable to it,
\* and the default is one of the choices.
C3_BindIffTypeCastChoice ==
    \A n \in Names :
        NumberBoundWithChoices(n) =>
            LET d == attrs[n]
            IN  bound[n] = "ok" <=>
                    /\ ValidFieldType(d)
                    /\ can_cast(d.default, d.field_type)
                    /\ PyIn(d.default, d.choices.items)

\* C3 witness: a numeric descriptor whose default is one of its choices
\* was bound.
C3_Witness ==
    \E n \in Names :
        /\ NumberBoundWithChoices(n)
        /\ bound[n] = "ok"
        /\ PyIn(attrs[n].default, attrs[n].choices.items)

\* ------------------------------------------------------------------------
\* Claims about List

\* the last operation was the assignment of a sequence to a List attribute
ListSet ==
    /\ last.op = "set"
    /\ attrs[last.name].kind = "List"
    /\ last.arg.t = "list"

\* the positions (from 0) of the last assignment's elements that violate
\* the element type or the element choices
Offending ==
    LET d == attrs[last.name]
        items == heap[last.arg.ref].items
    IN  {i - 1 : i \in BadType(items, d.element_type)
                       \cup BadChoice(items, d.element_choices)}

\* C5 (as stated): an assignment of a sequence to a List fails if and only
\* if some element violates the element type or the element choices, and
\* the index in the error is then the first position at which an element
\* violates either (read here for the assignments that no readonly rule
\* refuses).
C5_Original ==
    ListSet /\ ~Refused =>
        /\ ~last.ok <=> Offending # {}
        /\ ~last.ok => last.idx = SetMin(Offending)

\* C5 (amended): it fails if and only if some element violates the element
\* type or the element choices; the index in the error is the first
\* position whose element is not of the element type when there is one,
\* and otherwise the first position whose element is not among the choices.
C5_FailsIffOffendingTypeFirst ==
    ListSet /\ ~Refused =>
        LET d == attrs[last.name]
            items == heap[last.arg.ref].items
            badType == BadType(items, d.element_type)
            badChoice == BadChoice(items, d.element_choices)
        IN  /\ ~last.ok <=> Offending # {}
            /\ ~last.ok =>
                   last.idx = IF badType # {} THEN SetMin(badType) - 1
                              ELSE SetMin(badChoice) - 1

\* C5 witness: a sequence whose first element is not among the choices
\* and whose second is not of the element type was refused.
C5_Witness ==
    /\ ListSet
    /\ ~last.ok
    /\ heap[last.arg.ref].items = <<I5, Str>>
    /\ attrs[last.name].element_type = "int"
    /\ attrs[last.name].element_choices # None

\* ------------------------------------------------------------------------
\* Claims about NArray

\* the last operation was an NArray declaration giving ndim and dim_names
DeclaredBoth ==
    /\ last.op = "declare"
    /\ last.arg.t = "NArray"
    /\ last.arg.ndim # NoNdim
    /\ Len(last.arg.dim_names) # 0

\* C4: an NArray declaration that gives both ndim and (a non-empty)
\* dim_names fails if and only if ndim differs from the number of names;
\* a descriptor with names has as ndim the number of its names.
C4_DeclareFailsIffMismatch ==
    /\ DeclaredBoth =>
           /\ ~last.ok <=> last.arg.ndim # Len(last.arg.dim_names)
           /\ ~last.ok => last.exc = "ValueError" /\ attrs[last.name] = NoAttr
    /\ \A n \in Names :
           attrs[n] # NoAttr /\ attrs[n].kind = "NArray"
               /\ Len(attrs[n].dim_names) # 0
           => attrs[n].ndim = Len(attrs[n].dim_names)

\* C4 witness: a declaration with ndim=1 and two names has failed.
C4_Witness ==
    /\ DeclaredBoth
    /\ last.arg.ndim = 1
    /\ Len(last.arg.dim_names) = 2
    /\ ~last.ok

\* the last operation was the assignment of an array to an NArray attribute
ArraySet ==
    /\ last.op = "set"
    /\ attrs[last.name].kind = "NArray"
    /\ last.arg.t = "ndarray"

\* the array object behind a value
Deref(v) == heap[v.ref]

ExactInFloat64(v) == RoundBits(v.bits, 53) = v.bits

ArrayOf(i, n) ==
    IF attrs[n] # NoAttr /\ Get(i, n).t = "ndarray" THEN Deref(Get(i, n))
    ELSE None

\* C8: the value a successful assignment stores is a new array, another
\* object than the array passed (also when that array has the declared
\* dtype already), so a write the caller then makes into the array it
\* passed leaves what Get returns as it was.
C8_StoredIsNewArray ==
    /\ [](ArraySet /\ last.ok =>
            /\ dict[last.inst][last.name].ref # last.arg.ref
            /\ dict[last.inst][last.name].ref = Len(heap)
            /\ \A j \in Insts \ {last.inst} :
                   dict[j][last.name] # dict[last.inst][last.name])
    /\ [][\A i \in Insts, n \in Names :
            /\ ArraySet /\ last.ok /\ last.inst = i /\ last.name = n
            /\ last'.op = "write" /\ last'.ok /\ last'.arg = last.arg
            => ArrayOf(i, n)' = ArrayOf(i, n)
         ]_vars

\* C8 witness: the caller has written into the array it had assigned, an
\* array of the declared dtype.
C8_Witness ==
    /\ last.op = "write"
    /\ last.ok
    /\ \E i \in Insts :
           /\ dict[i]["x"] # Unset
           /\ dict[i]["x"].ref = last.arg.ref + 1
           /\ Deref(last.arg).dtype = attrs["x"].dtype
           /\ Deref(dict[i]["x"]) # Deref(last.arg)

\* the descriptor n is a bound NArray with a default
BoundWithDefault(n) ==
    /\ attrs[n] # NoAttr
    /\ attrs[n].kind = "NArray"
    /\ bound[n] = "ok"
    /\ attrs[n].default # None

\* C9: once an NArray descriptor with a default is bound, the default
\* array is read only: every write into it is refused and its contents
\* never change, whichever instance reads it.
C9_DefaultFrozen ==
    /\ [](\A n \in Names :
            BoundWithDefault(n) => ~Deref(attrs[n].default).writeable)
    /\ [][\A n \in Names :
            BoundWithDefault(n) =>
                /\ Deref(attrs[n].default)' = Deref(attrs[n].default)
                /\ last'.op = "write" /\ last'.arg = attrs[n].default
                       /\ ops' # ops
                   => ~last'.ok
                /\ \A i \in Insts :
                       dict[i][n]' = Unset => Get(i, n)' = attrs[n].default
         ]_vars

\* C9 witness: a write into the default of a bound descriptor was refused.
C9_Witness ==
    /\ BoundWithDefault("x")
    /\ last.op = "write"
    /\ last.arg = attrs["x"].default
    /\ ~last.ok

\* what instance i reads for n: the value and, for an array, its contents
Reads(i, n) == <<Get(i, n), ArrayOf(i, n)>>

\* C10: Get returns the instance's own value, or the default while the
\* instance has had no successful assignment; an assignment to one instance
\* changes what that instance reads only: not what any other instance reads
\* and not the default of the class.
C10_SetShadowsOneInstance ==
    /\ [](ClassCreated /\ ops = 0 =>
            \A i \in Insts, n \in Names :
                attrs[n] # NoAttr => Get(i, n) = attrs[n].default)
    /\ [][\A i \in Insts, m \in Names :
            last'.op = "set" /\ last'.inst = i /\ last'.name = m
                /\ ops' # ops
            => /\ attrs' = attrs
               /\ \A n \in Names :
                      attrs[n] # NoAttr /\ attrs[n].default.t = "ndarray"
                      => Deref(attrs[n].default)' = Deref(attrs[n].default)
               /\ \A j \in Insts, n \in Names :
                      attrs[n] # NoAttr /\ (j # i \/ n # m)
                      => Reads(j, n)' = Reads(j, n)
               /\ last'.ok /\ last'.arg # None =>
                      /\ dict[i][m]' # Unset
                      /\ Get(i, m)' = dict[i][m]'
               /\ ~last'.ok => Reads(i, m)' = Reads(i, m)
         ]_vars

\* C10 witness: one instance has been assigned an array and another still
\* reads the default array.
C10_Witness ==
    /\ last.op = "set"
    /\ last.ok
    /\ \E j \in Insts \ {last.inst} :
           /\ dict[j]["x"] = Unset
           /\ dict[last.inst]["x"] # Unset
           /\ attrs["x"].default # None
           /\ Get(j, "x") = attrs["x"].default
           /\ Get(last.inst, "x") # attrs["x"].default

\* the value v meets what the descriptor d declares: the checks of d's own
\* validation, made on v (None stands for no value)
Satisfies(d, v, h) ==
    IF v = None THEN TRUE
    ELSE CASE d.kind \in {"Int", "Float"} ->
                  /\ can_cast(v, d.field_type)
                  /\ d.choices = None \/ PyIn(v, d.choices.items)
           [] d.kind = "List" ->
                  /\ IsInstance(v, "Sequence")
                  /\ BadType(Items(v, h), d.element_type) = {}
                  /\ BadChoice(Items(v, h), d.element_choices) = {}
           [] d.kind = "NArray" ->
                  /\ v.t = "ndarray"
                  /\ can_cast_dtype(h[v.ref].dtype, d.dtype)
                  /\ d.ndim = NoNdim \/ Len(h[v.ref].shape) = d.ndim
           [] OTHER ->
                  /\ IsInstance(v, d.field_type)
                  /\ d.choices = None \/ PyIn(v, d.choices.items)

ConstSet ==
    /\ last.op = "set"
    /\ attrs[last.name].kind = "Const"

\* C12: a Const descriptor is required and readonly; every assignment to
\* it, on any instance and with any value, fails with ValidationError, and
\* every instance reads the declared default.
C12_ConstNeverSet ==
    /\ \A n \in Names :
           attrs[n] # NoAttr /\ attrs[n].kind = "Const" =>
               /\ attrs[n].required
               /\ attrs[n].readonly
               /\ attrs[n].field_type = TypeOf(attrs[n].default)
               /\ \A i \in Insts :
                      /\ dict[i][n] = Unset
                      /\ Get(i, n) = attrs[n].default
    /\ ConstSet => ~last.ok /\ last.exc = "ValidationError"

\* C12 witness: a value of the default's own type, other than the default,
\* was assigned to a Const attribute after another assignment to it.
C12_Witness ==
    /\ ConstSet
    /\ ops = 2
    /\ ~last.ok
    /\ TypeOf(last.arg) = attrs[last.name].field_type
    /\ last.arg # attrs[last.name].default
    /\ Get(last.inst, last.name) = attrs[last.name].default

\* C13: on a readonly attribute an instance takes a value once: the
\* assignment that finds no value may succeed, and once the instance holds
\* a value every assignment to it fails with ValidationError and leaves the
\* value as it was.
C13_ReadonlySetOnce ==
    /\ [](NumberSet /\ attrs[last.name].readonly /\ last.ok
              => last.pre = Unset)
    /\ [][\A i \in Insts, n \in Names :
            /\ attrs[n] # NoAttr /\ attrs[n].readonly
            /\ dict[i][n] # Unset
            /\ last'.op = "set" /\ last'.inst = i /\ last'.name = n
            /\ ops' # ops
            => /\ ~last'.ok
               /\ last'.exc = "ValidationError"
               /\ dict'[i][n] = dict[i][n]
         ]_vars

\* C13 witness: an instance that had taken a value for a readonly
\* attribute was assigned a value that passes the attribute's validation,
\* and the assignment was refused.
C13_Witness ==
    /\ NumberSet
    /\ attrs[last.name].readonly
    /\ last.pre # Unset
    /\ last.pre # None
    /\ ~last.ok
    /\ last.exc = "ValidationError"
    /\ Number_validate_set(attrs[last.name], last.arg).ok
    /\ dict[last.inst][last.name] = last.pre

\* the last operation was the assignment of None
NoneSet ==
    /\ last.op = "set"
    /\ last.arg = None

\* C14: the assignment of None succeeds only on an attribute that is not
\* required, and the instance then reads None; on a required attribute it
\* fails; on an attribute that is not required it succeeds unless the
\* readonly rule refuses it. A List is always required, so the assignment
\* of None to a List always fails.
C14_NoneOnlyIfNotRequired ==
    /\ \A n \in Names :
           attrs[n] # NoAttr /\ attrs[n].kind = "List" => attrs[n].required
    /\ NoneSet =>
           LET d == attrs[last.name]
           IN  /\ last.ok => ~d.required /\ Get(last.inst, last.name) = None
               /\ d.required => ~last.ok
               /\ ~last.ok => last.exc \in {"ValueError", "ValidationError"}
               /\ ~d.required /\ ~Refused => last.ok

\* C14 witness: None was assigned to a number attribute that is not
\* required and has a default, and the instance reads None.
C14_Witness ==
    /\ NoneSet
    /\ NumberSet
    /\ last.ok
    /\ attrs[last.name].default # None
    /\ Get(last.inst, last.name) = None

RangeQuery ==
    /\ last.op = "contains"
    /\ last.arg.domain.t = "Range"

\* C16: x in Range(lo, hi, step) is the half-open test lo <= x < hi
\* whatever the step; Range(0, 10, 2) holds 10 - 2^-10 and not 10.
C16_RangeHalfOpen ==
    RangeQuery =>
           LET q == last.arg.q
               r == last.arg.domain
           IN  /\ last.ok = (q[1] <= q[3] /\ q[3] < q[2])
               /\ \A step \in DomainSteps :
                      Range_contains(Range(r.lo, r.hi, ToNum(step)),
                                     last.arg.item) = last.ok
               /\ ~Range_contains(Range(ToNum(0), ToNum(10240), ToNum(2048)),
                                  ToNum(10240))
               /\ Range_contains(Range(ToNum(0), ToNum(10240), ToNum(2048)),
                                 ToNum(10239))

\* C16 witness: hi itself was tested against a Range with lo < hi and
\* found outside.
C16_Witness ==
    /\ RangeQuery
    /\ last.arg.q[1] < last.arg.q[2]
    /\ last.arg.q[3] = last.arg.q[2]
    /\ ~last.ok

\* the last operation was a call on a LinspaceRange
LinspaceQuery(op) ==
    /\ last.op = op
    /\ last.arg.domain.t = "LinspaceRange"

\* C17: x in LinspaceRange(lo, hi, npoints) is lo <= x < hi whatever
\* npoints; to_array returns npoints samples, the first lo, and from two
\* samples on evenly spaced with the last one hi; so for lo < hi and two
\* samples or more the last sample is no member of the domain it was drawn
\* from, while the first one is.
C17_LinspaceLastNotMember ==
    /\ LinspaceQuery("contains") =>
           LET q == last.arg.q
               r == last.arg.domain
           IN  /\ last.ok = (q[1] <= q[3] /\ q[3] < q[2])
               /\ \A n \in DomainPoints :
                      LinspaceRange_contains(LinspaceRange(r.lo, r.hi, n),
                                             last.arg.item) = last.ok
    /\ LinspaceQuery("to_array") =>
           LET r == last.arg.domain
               n == r.npoints
               out == last.arg.out
           IN  /\ Len(out) = n
               /\ n >= 1 => out[1] = r.lo
               /\ n >= 2 =>
                      /\ out[n] = r.hi
                      /\ \A i \in 1..(n - 2) :
                             FromNum(out[i + 1]) - FromNum(out[i])
                                 = FromNum(out[i + 2]) - FromNum(out[i + 1])
                      /\ NumLess(r.lo, r.hi) =>
                             /\ ~LinspaceRange_contains(r, out[n])
                             /\ LinspaceRange_contains(r, out[1])

\* C17 witness: five samples were drawn from a LinspaceRange with lo < hi;
\* the last is hi and is not in the domain.
C17_Witness ==
    /\ LinspaceQuery("to_array")
    /\ last.arg.domain.npoints = 5
    /\ NumLess(last.arg.domain.lo, last.arg.domain.hi)
    /\ last.arg.out[5] = last.arg.domain.hi
    /\ last.arg.out[2] # last.arg.out[1]
    /\ ~LinspaceRange_contains(last.arg.domain, last.arg.out[5])

\* the last operation failed while the class was being made: a declaration
\* or a bind
SetupFailed ==
    /\ last.op \in {"declare", "bind"}
    /\ ~last.ok

\* the last operation was an assignment that failed
SetFailed ==
    /\ last.op = "set"
    /\ ~last.ok

\* the kinds of error _Number._validate_set raises
AssignmentKinds ==
    {Number_validate_set(IntInit("int8", None, TRUE, FALSE, Tuple(<<I3>>)),
                         v).exc : v \in Scalars} \ {""}

SetupKind(d, h) ==
    CASE d.kind \in {"Int", "Float"} -> "TypeError"
      [] d.kind = "List" ->
             IF Attr_post_bind_validate(d).ok THEN "TypeError"
             ELSE "ConfigurationError"
      [] d.kind = "NArray" ->
             IF d.default.t # "ndarray" THEN "TypeError" ELSE "ValueError"
      [] OTHER -> "ConfigurationError"

\* the error an assignment of v to the descriptor d raises on failure
SetKind(d, was, v, h) ==
    IF ReadonlyRefuses(d, was) THEN "ValidationError"
    ELSE CASE d.kind \in {"Int", "Float"} ->
                  IF v # None /\ ~can_cast(v, d.field_type) THEN "TypeError"
                  ELSE "ValueError"
           [] d.kind = "List" ->
                  IF ~Attr_validate_set(d, v).ok THEN "ValidationError"
                  ELSE IF BadType(Items(v, h), d.element_type) # {}
                  THEN "TypeError"
                  ELSE "ValueError"
           [] d.kind = "NArray" ->
                  IF ~Attr_validate_set(d, v).ok THEN "ValidationError"
                  ELSE "TypeError"
           [] OTHER -> "ValidationError"

C19_GetIdempotent ==
    [][\A i \in Insts, n \in Names :
          last'.op = "get" /\ last'.inst = i /\ last'.name = n
          => /\ attrs' = attrs
             /\ dict' = dict
             /\ heap' = heap
             /\ last'.arg = Get(i, n)
             /\ Reads(i, n)' = Reads(i, n)
             /\ last.op = "get" /\ last.inst = i /\ last.name = n
                    => last'.arg = last.arg
      ]_vars

\* C19 witness: an instance that was assigned an array has been read
\* while another instance has no value of its own.
C19_Witness ==
    /\ last.op = "get"
    /\ dict[last.inst]["x"] # Unset
    /\ last.arg = dict[last.inst]["x"]
    /\ last.arg.t = "ndarray"
    /\ \E j \in Insts : dict[j]["x"] = Unset

\* the last operation was the bind of a List descriptor
ListBind ==
    /\ last.op = "bind"
    /\ attrs[last.name].kind = "List"

\* the positions (from 0) of the elements of the List default that violate
\* the element type or the element choices
DefaultOffending ==
    LET d == attrs[last.name]
        items == Items(d.default, heap)
    IN  {i - 1 : i \in BadType(items, d.element_type)
                       \cup BadChoice(items, d.element_choices)}

\* C20 (as stated): the bind of a List descriptor fails if and only if some
\* element of the default violates the element type or the element
\* choices, and the index in the error is the first position of the
\* default at which an element violates either.
C20_Original ==
    ListBind =>
        /\ ~last.ok <=> DefaultOffending # {}
        /\ ~last.ok => last.idx = SetMin(DefaultOffending)

\* C20 (amended): the bind fails if and only if some element of the default
\* violates the element type or the element choices; the index in the
\* error is the first position whose element is not of the element type
\* when there is one, and otherwise the first position whose element is
\* not among the choices.
C20_BindFailsIffOffendingTypeFirst ==
    ListBind =>
        LET d == attrs[last.name]
            items == Items(d.default, heap)
            badType == BadType(items, d.element_type)
            badChoice == BadChoice(items, d.element_choices)
        IN  /\ ~last.ok <=> DefaultOffending # {}
            /\ ~last.ok <=> bound[last.name] # "ok"
            /\ ~last.ok =>
                   last.idx = IF badType # {} THEN SetMin(badType) - 1
                              ELSE SetMin(badChoice) - 1

\* C20 witness: the bind failed for a default whose first element is not
\* among the choices and whose second is not of the element type.
C20_Witness ==
    /\ ListBind
    /\ ~last.ok
    /\ attrs[last.name].default.items = <<I5, Str>>
    /\ attrs[last.name].element_type = "int"
    /\ attrs[last.name].element_choices # None
    /\ last.idx = 1

\* the last operation was the bind of an NArray descriptor
NArrayBind ==
    /\ last.op = "bind"
    /\ attrs[last.name].kind = "NArray"

\* C21: the bind of an NArray descriptor with no default succeeds and
\* checks nothing. With a default it fails exactly when the default is no
\* array, or is an array that cannot be safely cast to the declared dtype,
\* or is one whose rank differs from a fixed ndim; the first failure is of
\* one kind (TypeError) and the other two of another (ValueError).
C21_NArrayBindChecks ==
    NArrayBind =>
        LET d == attrs[last.name]
            isArray == d.default.t = "ndarray"
            a == heap[d.default.ref]
        IN  /\ last.ok <=> bound[last.name] = "ok"
            /\ d.default = None => last.ok /\ last.warn = 0
            /\ d.default # None /\ ~isArray
                   => ~last.ok /\ last.exc = "TypeError"
            /\ d.default # None /\ isArray =>
                   /\ ~last.ok <=>
                          \/ ~can_cast_array(a, d.dtype)
                          \/ d.ndim # NoNdim /\ Len(a.shape) # d.ndim
                   /\ ~last.ok => last.exc = "ValueError"

\* C21 witness: the bind failed for a default that can be cast to the
\* declared dtype and whose rank is not the declared one.
C21_Witness ==
    /\ NArrayBind
    /\ ~last.ok
    /\ attrs[last.name].default.t = "ndarray"
    /\ can_cast_array(heap[attrs[last.name].default.ref],
                      attrs[last.name].dtype)
    /\ attrs[last.name].ndim = 2
    /\ Len(heap[attrs[last.name].default.ref].shape) = 1

\* the array a has an element outside the domain
OutOfDomain(a, domain) ==
    \E i \in 1..Len(a.data) : ~Range_contains(domain, a.data[i])

\* C22: the domain of an NArray never makes an operation fail. The bind of
\* a default that passes the checks of type, dtype and rank succeeds also
\* when elements are outside the domain: one warning is logged then, none
\* otherwise, and the default is read only either way. An assignment is
\* accepted or refused by rank and dtype alone and logs nothing.
C22_DomainNeverFails ==
    /\ NArrayBind /\ attrs[last.name].default.t = "ndarray" =>
           LET d == attrs[last.name]
               a == heap[d.default.ref]
           IN  /\ last.ok <=>
                      /\ can_cast_array(a, d.dtype)
                      /\ d.ndim = NoNdim \/ Len(a.shape) = d.ndim
               /\ last.ok => ~a.writeable
               /\ last.warn = IF last.ok /\ d.domain # None
                                  /\ OutOfDomain(a, d.domain)
                              THEN 1 ELSE 0
    /\ ArraySet /\ ~Refused =>
           LET d == attrs[last.name]
               a == heap[last.arg.ref]
           IN  /\ last.ok <=>
                      /\ d.ndim = NoNdim \/ Len(a.shape) = d.ndim
                      /\ can_cast_dtype(a.dtype, d.dtype)
               /\ last.warn = 0

\* C22 witness: a descriptor whose default has elements outside its domain
\* is bound, its default read only, and an array with elements outside the
\* domain has been assigned to an instance.
C22_Witness ==
    /\ ArraySet
    /\ last.ok
    /\ attrs[last.name].domain # None
    /\ bound[last.name] = "ok"
    /\ OutOfDomain(heap[attrs[last.name].default.ref], attrs[last.name].domain)
    /\ ~heap[attrs[last.name].default.ref].writeable
    /\ OutOfDomain(heap[last.arg.ref], attrs[last.name].domain)
    /\ OutOfDomain(heap[dict[last.inst][last.name].ref], attrs[last.name].domain)

\* the last operation was the bind of an Int or Float descriptor
NumberBind ==
    /\ last.op = "bind"
    /\ attrs[last.name].kind \in {"Int", "Float"}

\* C23: the bind of an Int whose field type is no integer type fails, and
\* so does the bind of a Float whose field type is no floating type; the
\* error is the one about the field type also when the default cannot be
\* cast or is not among the choices. With a field type of the right kind
\* the bind is decided by the default: its cast first, then the choices.
C23_FieldTypeCheckedFirst ==
    NumberBind =>
        LET d == attrs[last.name]
            right == IF d.kind = "Int" THEN IsIntegerType(d.field_type)
                     ELSE IsFloatingType(d.field_type)
            castable == d.default = None \/ can_cast(d.default, d.field_type)
            chosen == d.default = None \/ d.choices = None
                          \/ PyIn(d.default, d.choices.items)
        IN  /\ ~right => /\ ~last.ok
                         /\ last.exc = "TypeError"
                         /\ last.msg = "field_type"
                         /\ bound[last.name] = "TypeError"
            /\ right /\ ~castable => ~last.ok /\ last.msg = "cast"
            /\ right /\ castable /\ ~chosen
                   => ~last.ok /\ last.msg = "choices"
            /\ right /\ castable /\ chosen => last.ok

\* C23 witness: an Int with a floating field type and a default that is
\* not among its choices failed to bind.
C23_Witness ==
    /\ NumberBind
    /\ ~last.ok
    /\ attrs[last.name].kind = "Int"
    /\ ~IsIntegerType(attrs[last.name].field_type)
    /\ ~Number_post_bind_validate(attrs[last.name]).ok
    /\ last.msg = "field_type"

\* C24: a successful assignment to a List stores the very sequence given,
\* with no copy made; when the caller later appends to that sequence,
\* without an assignment, no check is made and every instance that holds
\* the sequence reads the appended element.
C24_ListStoredUncopied ==
    /\ [](ListSet /\ last.ok =>
            /\ dict[last.inst][last.name] = last.arg
            /\ last.arg.ref = Len(heap))
    /\ [][\A k \in 1..Len(heap) :
            last'.op = "mutate" /\ last'.arg = Ref("list", k) /\ ops' # ops
            => /\ last'.ok
               /\ dict' = dict
               /\ Len(heap'[k].items) = Len(heap[k].items) + 1
               /\ \A i \in Insts :
                      dict[i]["x"] = Ref("list", k) =>
                          Items(Get(i, "x"), heap)' = heap'[k].items
         ]_vars

\* C24 witness: the caller appended a str to the list it had assigned to a
\* List of int; the instance reads a list with an element that is no int.
C24_Witness ==
    /\ last.op = "mutate"
    /\ attrs["x"].element_type = "int"
    /\ \E i \in Insts :
           /\ dict[i]["x"] = last.arg
           /\ ~Satisfies(attrs["x"], Get(i, "x"), heap)
           /\ BadType(Items(Get(i, "x"), heap), "int") # {}

\* the descriptor n is a Const whose default is a list
ConstOfList(n) ==
    /\ attrs[n] # NoAttr
    /\ attrs[n].kind = "Const"
    /\ attrs[n].default.t = "list"

\* C25: the default of a Const is one object for the whole class: every
\* instance reads the very list the declaration was given, and an append
\* made through one instance changes that list, so that every other
\* instance reads the appended element.
C25_ConstDefaultShared ==
    /\ [](\A n \in Names : ConstOfList(n) =>
            \A i \in Insts : Get(i, n) = attrs[n].default)
    /\ [](last.op = "declare" /\ ConstOfList(last.name)
              => attrs[last.name].default = last.arg)
    /\ [][\A i \in Insts, n \in Names :
            /\ ConstOfList(n)
            /\ last'.op = "mutate" /\ last'.inst = i /\ last'.name = n
            /\ ops' # ops
            => /\ last'.arg = attrs[n].default
               /\ Len(heap') = Len(heap)
               /\ \A j \in Insts :
                      /\ Get(j, n)' = Get(j, n)
                      /\ Len(Items(Get(j, n), heap)')
                             = Len(Items(Get(j, n), heap)) + 1
                      /\ Items(Get(j, n), heap)' = Items(Get(i, n), heap)'
         ]_vars

\* C25 witness: a list that is the default of a Const was appended to
\* through one instance, and another instance reads the longer list.
C25_Witness ==
    /\ last.op = "mutate"
    /\ ConstOfList("x")
    /\ \E j \in Insts \ {last.inst} :
           /\ Get(j, "x") = last.arg
           /\ Len(Items(Get(j, "x"), heap)) > 0
           /\ Items(Get(j, "x"), heap)[Len(Items(Get(j, "x"), heap))] = Str

\* what a read of instance.n gives: the value, and the content of the
\* object when the value is a list or an array
Observed(i, n) ==
    <<Get(i, n), IF IsRef(Get(i, n)) THEN heap[Get(i, n).ref] ELSE None>>

\* C26: an assignment that fails raises at once and changes nothing an
\* instance reads: every attribute of every instance, the assigned one
\* included, reads as before, and no __dict__ entry is written.
C26_FailedSetChangesNothing ==
    [][last'.op = "set" /\ ops' # ops /\ ~last'.ok
         => /\ last'.exc \in {"TypeError", "ValueError", "ValidationError"}
            /\ dict' = dict
            /\ \A j \in Insts, n \in Names :
                   attrs[n] # NoAttr => Observed(j, n)' = Observed(j, n)
      ]_vars

\* C26 witness: an instance holds a value of its own in y, and an
\* assignment to its x has failed validation.
C26_Witness ==
    /\ last.op = "set" /\ ~last.ok /\ last.name = "x"
    /\ last.exc \in {"TypeError", "ValueError"}
    /\ attrs["y"] # NoAttr
    /\ dict[last.inst]["y"] # Unset

\* ------------------------------------------------------------------------
\* Claims about the analyzers

\* the last operation was this call on the correlation analyzer
CorrCall(op) == last.op = op /\ last.name = "CorrelationCoefficient"

\* the index of the time point at time t
TimeIndex(t, sample_period) == TruncDiv(t - sample_period, sample_period)

\* C27: the time points evaluate takes start at the index of t_start, or
\* at 0 when that index is negative, and when the index of t_end lies
\* inside the series they end with that index, none after it being taken.
C27_WindowEndsAtTEnd ==
    CorrCall("evaluate") =>
        LET a == last.arg.args
            tpts == a.shape[1]
            lo == TimeIndex(a.t_start, a.sample_period)
            hi == TimeIndex(a.t_end, a.sample_period)
            time == last.arg.out.time
        IN  /\ time.start = Min(Max(lo, 0), tpts)
            /\ (0 <= hi /\ hi < tpts /\ Max(lo, 0) <= hi)
                   => time.stop = hi + 1

\* C28: result_shape of (tpts, vars, nodes, modes) is (nodes, nodes, vars,
\* modes), result_size is 8 bytes for each of the nodes * nodes * vars *
\* modes elements, and extended_result_size is the same number.
C28_ResultSizeIsBytes ==
    /\ CorrCall("result_shape")
           => last.arg.out = <<last.arg.args.shape[3], last.arg.args.shape[3],
                               last.arg.args.shape[2], last.arg.args.shape[4]>>
    /\ CorrCall("result_size")
           => last.arg.out = 8 * last.arg.args.shape[3] * last.arg.args.shape[3]
                               * last.arg.args.shape[2] * last.arg.args.shape[4]
    /\ CorrCall("extended_result_size")
           => last.arg.out
                  = CorrelationCoefficient_result_size(last.arg.args.shape)

\* C29: the first time point the metastability analyzer keeps is an index
\* of the series, so that one time point at least is analysed.
C29_StartInsideSeries ==
    (last.op = "evaluate" /\ last.name = "ProxyMetastabilitySynchrony") =>
        /\ 0 <= last.arg.out.start_tpt
        /\ last.arg.out.start_tpt < last.arg.args.tpts
        /\ last.arg.out.window >= 1

====
